---- MODULE Spec2Model ----
(***************************************************************************)
(* PathFinder-ECE: the App component (form, resume scan, save modal and    *)
(* history store over localStorage) and the two provider operations of     *)
(* geminiService.ts, as a state machine.  One action per event handler or  *)
(* per resumption of an async handler after an await.                      *)
(***************************************************************************)
EXTENDS Integers, Sequences, FiniteSets, TLC

(***************************************************************************)
(* Bounds of the model.                                                    *)
(***************************************************************************)
\* number of fresh UUIDs crypto.randomUUID() hands out in one run
MaxSaves == 1
\* number of history entries whose serialization fits the storage quota
StorageQuota == 3
\* number of submits the form accepts between two page loads
MaxSubmits == 2

(***************************************************************************)
(* JavaScript values.  A string-or-null state holds a string or NULL; a    *)
(* field that is `undefined` holds Undefined; a key JSON.stringify left    *)
(* out of an object reads Absent in the stored document.                   *)
(***************************************************************************)
NULL == "<null>"
Undefined == "<undefined>"
Absent == "<absent>"
Null == [kind |-> "null"]

\* `!s` for a string-or-undefined value
Falsy(s) == s = "" \/ s = Undefined

\* text a user types into the education, skills and interests inputs
EducationTexts == {"", "ECE"}
SkillsTexts == {""}
InterestsTexts == {""}

\* titles typed into the save modal, as sequences of characters
Titles == {<<>>, <<" ">>, <<"P">>}

\* results of new Date().toLocaleDateString(...)
Dates == {"Nov 3, 2026, 09:00 PM"}

IsSpace(c) == c = " "

RECURSIVE TrimStart(_)
TrimStart(s) == IF s # <<>> /\ IsSpace(Head(s)) THEN TrimStart(Tail(s)) ELSE s

RECURSIVE TrimEnd(_)
TrimEnd(s) ==
    IF s # <<>> /\ IsSpace(s[Len(s)]) THEN TrimEnd(SubSeq(s, 1, Len(s) - 1)) ELSE s

\* String.prototype.trim
Trim(s) == TrimEnd(TrimStart(s))

(***************************************************************************)
(* Program constants.                                                      *)
(***************************************************************************)
QuickStartTemplates ==
    << [label |-> "VLSI", skills |-> "Verilog, Digital Logic, CMOS, SPICE",
        interests |-> "Chip Design, ASIC, FPGA"],
       [label |-> "Embedded", skills |-> "C/C++, Microcontrollers, RTOS, I2C",
        interests |-> "Firmware, IoT, ESP32"],
       [label |-> "Robotics", skills |-> "Python, Control Systems, Arduino",
        interests |-> "Automation, ROS, Mechatronics"],
       [label |-> "Telecom", skills |-> "MATLAB, Signal Processing, TCP/IP",
        interests |-> "Wireless, 5G, Networking"] >>

\* the quick-start templates the user clicks
ClickedTemplates == {1}

validTypes ==
    { "application/pdf", "application/msword",
      "application/vnd.openxmlformats-officedocument.wordprocessingml.document",
      "text/plain" }

GenerationFailedMessage == "Failed to get recommendations. Please try again."
ScanFailedMessage == "Failed to scan resume. Please try manual input."
UploadRejectedMessage == "Please upload a PDF or Word document."

\* errors thrown inside the handlers
ProviderError == "provider error"
GenerationFailedError == "Could not generate recommendations. Please try again."
ScanFailedError == "Could not scan the resume. Please try manual input."
FileReadError == "file read error"

(***************************************************************************)
(* Recommendation and ResumeData values: what JSON.parse gives back.       *)
(***************************************************************************)
RecKeys == {"careerPaths", "internshipRoles", "skillsToLearn", "summary"}
RecListKeys == {"careerPaths", "internshipRoles", "skillsToLearn"}

\* {} : what JSON.parse("{}") returns
EmptyObject == [kind |-> "object", keys |-> {}]

\* a Recommendation of the full shape; the provider writes its summary about
\* the profile it was asked about (education, skills, interests)
FullRecommendation(education, skills, interests) ==
    [kind |-> "object", keys |-> RecKeys,
     careerPaths |-> <<"Embedded Systems Engineer">>,
     internshipRoles |-> <<"Firmware Intern">>,
     skillsToLearn |-> <<>>,
     summary |-> <<education, skills, interests>>]

\* a ResumeData of the full shape
FullResumeData ==
    [kind |-> "object", keys |-> {"education", "skills", "interests"},
     education |-> "ECE", skills |-> "Verilog, Digital Logic, CMOS, SPICE",
     interests |-> "Chip Design, ASIC, FPGA"]

\* a response that leaves the education key out
ResumeDataNoEducation ==
    [kind |-> "object", keys |-> {"skills", "interests"},
     skills |-> "Verilog, Digital Logic, CMOS, SPICE",
     interests |-> "Chip Design, ASIC, FPGA"]

\* obj.education, obj.skills, obj.interests on a parsed object
GetEducation(obj) == IF "education" \in obj.keys THEN obj.education ELSE Undefined
GetSkills(obj) == IF "skills" \in obj.keys THEN obj.skills ELSE Undefined
GetInterests(obj) == IF "interests" \in obj.keys THEN obj.interests ELSE Undefined

\* the CareerRecommendation interface: four keys, the three lists are lists
IsCareerRecommendation(v) == v.kind = "object" /\ v.keys = RecKeys

\* the ResumeData interface
IsResumeData(v) == v.kind = "object" /\ v.keys = {"education", "skills", "interests"}

(***************************************************************************)
(* response.text of a provider response, and JSON.parse(response.text ||   *)
(* "{}").                                                                  *)
(***************************************************************************)
NoText == [kind |-> "undefined"]
InvalidJson == [kind |-> "invalid"]
JsonText(v) == [kind |-> "json", value |-> v]

\* JSON.parse(text): the parsed value, or a SyntaxError
JSONparse(text) ==
    IF text.kind = "json"
    THEN [threw |-> FALSE, value |-> text.value]
    ELSE [threw |-> TRUE]

\* response.text || "{}"
TextOrEmptyObject(text) == IF text.kind = "undefined" THEN JsonText(EmptyObject) ELSE text

\* JSON.parse(response.text || "{}")
ParseResponseText(text) == JSONparse(TextOrEmptyObject(text))

\* what generateContent resolves with for a recommendation request
Rejected == [kind |-> "rejected"]
RecommendationResponses(education, skills, interests) ==
    { Rejected, NoText, InvalidJson,
      JsonText(FullRecommendation(education, skills, interests)) }

\* what generateContent resolves with for a scan request
ScanResponses ==
    { Rejected, InvalidJson, JsonText(FullResumeData), JsonText(ResumeDataNoEducation) }

\* getCareerRecommendations: the value the promise resolves with, or the
\* error it rejects with
getCareerRecommendations(response) ==
    IF response.kind = "rejected"
    THEN [ok |-> FALSE, error |-> ProviderError]
    ELSE LET parsed == ParseResponseText(response)
         IN  IF parsed.threw
             THEN [ok |-> FALSE, error |-> GenerationFailedError]
             ELSE [ok |-> TRUE, value |-> parsed.value]

\* scanResume: the value the promise resolves with, or the error it rejects with
scanResume(response) ==
    IF response.kind = "rejected"
    THEN [ok |-> FALSE, error |-> ProviderError]
    ELSE LET parsed == ParseResponseText(response)
         IN  IF parsed.threw
             THEN [ok |-> FALSE, error |-> ScanFailedError]
             ELSE [ok |-> TRUE, value |-> parsed.value]

\* rendering a recommendation calls .map on its three list fields
RenderThrows(rec) == rec.kind = "object" /\ ~(RecListKeys \subseteq rec.keys)

(***************************************************************************)
(* HistoryItem, and the document JSON.stringify writes for a history list. *)
(***************************************************************************)
HistoryKey == "ece_career_history"

HistoryItem(id, title, date, rec, education, skills, interests) ==
    [id |-> id, title |-> title, date |-> date, recommendation |-> rec,
     inputs |-> [education |-> education, skills |-> skills, interests |-> interests]]

\* a stringify that leaves out every falsy value
StringifyDropsFalsy(v) == IF Falsy(v) THEN Absent ELSE v

\* JSON.stringify leaves out a key whose value is undefined
StringifyField(v) == IF v = Undefined THEN Absent ELSE v

StringifyItem(item) ==
    [item EXCEPT !.inputs = [k \in DOMAIN item.inputs |-> StringifyField(item.inputs[k])]]

\* JSON.stringify(newHistory)
Stringify(list) == JsonText([i \in 1..Len(list) |-> StringifyItem(list[i])])

\* item.inputs.education and its like: a key that is not there reads undefined
ReadField(v) == IF v = Absent THEN Undefined ELSE v

\* localStorage.getItem returns null when the key is not set
NoItem == [kind |-> "none"]

\* entries earlier sessions saved, most recent first
StoredBefore ==
    << HistoryItem(3, <<"P">>, "Nov 2, 2026, 10:00 AM",
                   FullRecommendation("ECE", QuickStartTemplates[1].skills,
                                      QuickStartTemplates[1].interests),
                   "ECE", QuickStartTemplates[1].skills, QuickStartTemplates[1].interests),
       HistoryItem(2, <<"P">>, "Nov 1, 2026, 03:00 PM",
                   FullRecommendation(Undefined, QuickStartTemplates[1].skills,
                                      QuickStartTemplates[1].interests),
                   Undefined, QuickStartTemplates[1].skills,
                   QuickStartTemplates[1].interests),
       HistoryItem(1, <<"P">>, "Nov 1, 2026, 10:00 AM",
                   FullRecommendation("ECE", QuickStartTemplates[1].skills,
                                      QuickStartTemplates[1].interests),
                   "ECE", QuickStartTemplates[1].skills, QuickStartTemplates[1].interests) >>

\* the last n of them
LastStored(n) == SubSeq(StoredBefore, Len(StoredBefore) - n + 1, Len(StoredBefore))

\* what the storage key holds when the page is first opened
InitialStores == { NoItem, InvalidJson, Stringify(LastStored(1)) }

\* ids crypto.randomUUID() has not handed out yet
FreshIds == (Len(StoredBefore) + 1)..(Len(StoredBefore) + MaxSaves)

\* localStorage.setItem throws QuotaExceededError when the value does not fit
QuotaExceeded(text) == Len(text.value) > StorageQuota

\* the mount effect: the list the component starts with
LoadHistory(savedHistory) ==
    IF savedHistory.kind = "none"
    THEN <<>>
    ELSE LET parsed == JSONparse(savedHistory)
         IN  IF parsed.threw THEN <<>> ELSE parsed.value

(***************************************************************************)
(* Files the user can pick: the declared type and the end of the name.     *)
(***************************************************************************)
File(type, ext) == [kind |-> "file", type |-> type, ext |-> ext]

Files ==
    { File("application/pdf", ".pdf"), File("image/png", ".png"),
      File("application/octet-stream", ".pdf") }

\* the test both handleFileChange and handleDrop make
AcceptsFile(file) ==
    file.type \in validTypes \/ file.ext \in {".pdf", ".doc", ".docx"}

(***************************************************************************)
(* State.                                                                  *)
(***************************************************************************)
VARIABLES
    mounted,          \* the component tree is rendered (FALSE once a render threw)
    education, skills, interests, loading, isScanning,
    recommendation, error, uploadedFile,
    history, isSaveModalOpen, saveTitle,
    localStorage,     \* the value under HistoryKey
    nextId,           \* the next UUID crypto.randomUUID() returns
    submitReq,        \* the handleSubmit call that is waiting on its await
    scanReq,          \* the handleScan call that is waiting on one of its awaits
    acceptedSubmits,  \* handleSubmit calls that got past the early return, since the page load
    submitCalls,      \* getCareerRecommendations requests handleSubmit sent, since the page load
    otherHistory,     \* the history list of a second tab of the same browser
    lastWriter        \* the tab whose setItem wrote the value under HistoryKey

formVars == <<education, skills, interests>>
storeVars == <<history, localStorage, nextId>>
modalVars == <<isSaveModalOpen, saveTitle>>
callVars == <<acceptedSubmits, submitCalls>>
tabVars == <<otherHistory, lastWriter>>
vars == <<mounted, education, skills, interests, loading, isScanning,
          recommendation, error, uploadedFile, history, isSaveModalOpen, saveTitle,
          localStorage, nextId, submitReq, scanReq, acceptedSubmits, submitCalls,
          otherHistory, lastWriter>>

Idle == [pc |-> "idle"]

\* the tabs, and the value of lastWriter before any setItem
ThisTab == "this tab"
OtherTab == "other tab"
NoWriter == "no tab"

\* the useState initial values, then the mount effect
Mount(store) ==
    /\ mounted = TRUE
    /\ education = "" /\ skills = "" /\ interests = ""
    /\ loading = FALSE /\ isScanning = FALSE
    /\ recommendation = Null /\ error = NULL /\ uploadedFile = Null
    /\ history = LoadHistory(store)
    /\ isSaveModalOpen = FALSE /\ saveTitle = <<>>
    /\ submitReq = Idle /\ scanReq = Idle
    /\ acceptedSubmits = 0 /\ submitCalls = 0

\* the second tab was opened on the same store and does nothing afterwards
Init ==
    /\ localStorage \in InitialStores
    /\ nextId = Len(StoredBefore) + 1
    /\ Mount(localStorage)
    /\ otherHistory = LoadHistory(localStorage)
    /\ lastWriter = NoWriter

(***************************************************************************)
(* The history store.                                                      *)
(***************************************************************************)
\* saveToLocalStorage without its setHistory
WritesOnlyStorage(newHistory) ==
    [threw |-> FALSE, localStorage |-> Stringify(newHistory), history |-> history]

\* saveToLocalStorage without its setItem
SetsOnlyHistory(newHistory) ==
    [threw |-> FALSE, localStorage |-> localStorage, history |-> newHistory]

\* saveToLocalStorage(newHistory): setItem, then setHistory; a throwing setItem
\* leaves both as they were
saveToLocalStorage(newHistory) ==
    IF QuotaExceeded(Stringify(newHistory))
    THEN [threw |-> TRUE, localStorage |-> localStorage, history |-> history]
    ELSE [threw |-> FALSE, localStorage |-> Stringify(newHistory), history |-> newHistory]

\* an early return that tests the title without trimming it
SaveGuardNoTrim == recommendation # Null /\ saveTitle # <<>>

\* the early return of handleSave
SaveGuard == recommendation # Null /\ Trim(saveTitle) # <<>>

\* the entry handleSave builds
NewItem(id, date) ==
    HistoryItem(id, saveTitle, date, recommendation, education, skills, interests)

\* [...history, newItem]
AppendInstead(item, list) == list \o <<item>>

\* [newItem, ...history]
Prepend(item, list) == <<item>> \o list

\* history.filter(item => item.id === id)
FilterKeepsId(list, id) == SelectSeq(list, LAMBDA item : item.id = id)

\* history.filter(item => item.id !== id)
FilterOutId(list, id) == SelectSeq(list, LAMBDA item : item.id # id)

\* the save modal is rendered and its title input takes Enter
CanInvokeSave == mounted /\ isSaveModalOpen

\* the history list once a call of handleSave has returned or thrown
historyAfterHandleSave(date) ==
    IF ~SaveGuard
    THEN history
    ELSE saveToLocalStorage(Prepend(NewItem(nextId, date), history)).history

\* the stored value once a call of handleSave has returned or thrown
localStorageAfterHandleSave(date) ==
    IF ~SaveGuard
    THEN localStorage
    ELSE saveToLocalStorage(Prepend(NewItem(nextId, date), history)).localStorage

\* a call of handleSave ends with the exception of setItem, which nothing catches
handleSaveThrows(date) ==
    SaveGuard /\ saveToLocalStorage(Prepend(NewItem(nextId, date), history)).threw

\* the modal flag and the title once a call of handleSave has returned or thrown
isSaveModalOpenAfterHandleSave(date) ==
    IF SaveGuard /\ ~handleSaveThrows(date) THEN FALSE ELSE isSaveModalOpen

saveTitleAfterHandleSave(date) ==
    IF SaveGuard /\ ~handleSaveThrows(date) THEN <<>> ELSE saveTitle

\* handleSave, from the Save to History button or Enter in the title input
handleSave ==
    /\ CanInvokeSave
    /\ SaveGuard
    /\ nextId \in FreshIds
    /\ \E date \in Dates :
          LET written == saveToLocalStorage(Prepend(NewItem(nextId, date), history))
          IN  /\ ~written.threw
              /\ localStorage' = written.localStorage
              /\ history' = written.history
    /\ nextId' = nextId + 1
    /\ isSaveModalOpen' = FALSE
    /\ saveTitle' = <<>>
    /\ UNCHANGED <<mounted, formVars, loading, isScanning, recommendation,
                   error, uploadedFile, submitReq, scanReq>>
    /\ lastWriter' = ThisTab
    /\ UNCHANGED <<callVars, otherHistory>>

\* deleteHistoryItem(item.id, e), from the bin button of a history card
deleteHistoryItem ==
    /\ mounted
    /\ \E i \in 1..Len(history) :
          LET written == saveToLocalStorage(FilterOutId(history, history[i].id))
          IN  /\ ~written.threw
              /\ localStorage' = written.localStorage
              /\ history' = written.history
    /\ UNCHANGED <<mounted, formVars, loading, isScanning, recommendation,
                   error, uploadedFile, modalVars, nextId, submitReq, scanReq>>
    /\ lastWriter' = ThisTab
    /\ UNCHANGED <<callVars, otherHistory>>

\* Clear All, confirmed: saveToLocalStorage([])
clearAll ==
    /\ mounted
    /\ Len(history) > 0
    /\ LET written == saveToLocalStorage(<<>>)
       IN  /\ ~written.threw
           /\ localStorage' = written.localStorage
           /\ history' = written.history
    /\ UNCHANGED <<mounted, formVars, loading, isScanning, recommendation,
                   error, uploadedFile, modalVars, nextId, submitReq, scanReq>>
    /\ lastWriter' = ThisTab
    /\ UNCHANGED <<callVars, otherHistory>>

\* viewHistoryItem(item), from a click on a history card
viewHistoryItem ==
    /\ mounted
    /\ \E i \in 1..Len(history) :
          /\ recommendation' = history[i].recommendation
          /\ education' = ReadField(history[i].inputs.education)
          /\ skills' = ReadField(history[i].inputs.skills)
          /\ interests' = ReadField(history[i].inputs.interests)
          /\ mounted' = ~RenderThrows(history[i].recommendation)
    /\ UNCHANGED <<loading, isScanning, error, uploadedFile, storeVars, modalVars,
                   submitReq, scanReq>>
    /\ UNCHANGED <<callVars, tabVars>>

\* a page reload: the component is constructed again and reads the storage key
Reload ==
    /\ mounted' = TRUE
    /\ education' = "" /\ skills' = "" /\ interests' = ""
    /\ loading' = FALSE /\ isScanning' = FALSE
    /\ recommendation' = Null /\ error' = NULL /\ uploadedFile' = Null
    /\ history' = LoadHistory(localStorage)
    /\ isSaveModalOpen' = FALSE /\ saveTitle' = <<>>
    /\ submitReq' = Idle /\ scanReq' = Idle
    /\ UNCHANGED <<localStorage, nextId>>
    /\ acceptedSubmits' = 0 /\ submitCalls' = 0
    /\ UNCHANGED tabVars

(***************************************************************************)
(* The form.                                                               *)
(***************************************************************************)
\* onChange of the three inputs
setEducation ==
    /\ mounted
    /\ \E text \in EducationTexts : education' = text
    /\ UNCHANGED <<mounted, skills, interests, loading, isScanning,
                   recommendation, error, uploadedFile, storeVars, modalVars,
                   submitReq, scanReq>>
    /\ UNCHANGED <<callVars, tabVars>>

setSkills ==
    /\ mounted
    /\ \E text \in SkillsTexts : skills' = text
    /\ UNCHANGED <<mounted, education, interests, loading, isScanning,
                   recommendation, error, uploadedFile, storeVars, modalVars,
                   submitReq, scanReq>>
    /\ UNCHANGED <<callVars, tabVars>>

setInterests ==
    /\ mounted
    /\ \E text \in InterestsTexts : interests' = text
    /\ UNCHANGED <<mounted, education, skills, loading, isScanning,
                   recommendation, error, uploadedFile, storeVars, modalVars,
                   submitReq, scanReq>>
    /\ UNCHANGED <<callVars, tabVars>>

\* a click on a quick-start template
applyTemplate ==
    /\ mounted
    /\ \E t \in ClickedTemplates :
          /\ skills' = QuickStartTemplates[t].skills
          /\ interests' = QuickStartTemplates[t].interests
    /\ UNCHANGED <<mounted, education, loading, isScanning, recommendation,
                   error, uploadedFile, storeVars, modalVars, submitReq, scanReq>>
    /\ UNCHANGED <<callVars, tabVars>>

\* a handleSubmit that answers from the displayed recommendation when it was
\* made for the profile in the form, and sends a request otherwise
handleSubmitCached ==
    /\ mounted
    /\ ~loading
    /\ ~(Falsy(education) \/ Falsy(skills) \/ Falsy(interests))
    /\ acceptedSubmits < MaxSubmits
    /\ acceptedSubmits' = acceptedSubmits + 1
    /\ error' = NULL
    /\ IF recommendation = FullRecommendation(education, skills, interests)
       THEN UNCHANGED <<submitCalls, loading, submitReq>>
       ELSE /\ submitCalls' = submitCalls + 1
            /\ loading' = TRUE
            /\ submitReq' = [pc |-> "awaiting", education |-> education,
                             skills |-> skills, interests |-> interests]
    /\ UNCHANGED <<mounted, formVars, isScanning, recommendation,
                   uploadedFile, storeVars, modalVars, scanReq>>
    /\ UNCHANGED tabVars

\* handleSubmit up to its await: the provider request is on its way
handleSubmit ==
    /\ mounted
    /\ ~loading
    /\ ~(Falsy(education) \/ Falsy(skills) \/ Falsy(interests))
    /\ acceptedSubmits < MaxSubmits
    /\ acceptedSubmits' = acceptedSubmits + 1
    /\ submitCalls' = submitCalls + 1
    /\ loading' = TRUE
    /\ error' = NULL
    /\ submitReq' = [pc |-> "awaiting", education |-> education, skills |-> skills,
                     interests |-> interests]
    /\ UNCHANGED <<mounted, formVars, isScanning, recommendation,
                   uploadedFile, storeVars, modalVars, scanReq>>
    /\ UNCHANGED tabVars

\* handleSubmit after its await, without the finally block
submitResolvesWithoutFinally ==
    /\ mounted
    /\ submitReq.pc = "awaiting"
    /\ \E response \in RecommendationResponses(submitReq.education, submitReq.skills,
                                               submitReq.interests) :
          LET result == getCareerRecommendations(response)
          IN  IF result.ok
              THEN /\ recommendation' = result.value
                   /\ mounted' = ~RenderThrows(result.value)
                   /\ error' = error
              ELSE /\ error' = GenerationFailedMessage
                   /\ UNCHANGED <<recommendation, mounted>>
    /\ submitReq' = Idle
    /\ UNCHANGED <<formVars, loading, isScanning, uploadedFile, storeVars, modalVars,
                   scanReq>>
    /\ UNCHANGED <<callVars, tabVars>>

\* handleSubmit after its await: try / catch / finally
submitResolves ==
    /\ mounted
    /\ submitReq.pc = "awaiting"
    /\ \E response \in RecommendationResponses(submitReq.education, submitReq.skills,
                                               submitReq.interests) :
          LET result == getCareerRecommendations(response)
          IN  IF result.ok
              THEN /\ recommendation' = result.value
                   /\ mounted' = ~RenderThrows(result.value)
                   /\ error' = error
              ELSE /\ error' = GenerationFailedMessage
                   /\ UNCHANGED <<recommendation, mounted>>
    /\ loading' = FALSE
    /\ submitReq' = Idle
    /\ UNCHANGED <<formVars, isScanning, uploadedFile, storeVars, modalVars,
                   scanReq>>
    /\ UNCHANGED <<callVars, tabVars>>

\* a reset that empties the history list as well
resetAlsoClearsHistory ==
    /\ mounted
    /\ recommendation # Null
    /\ recommendation' = Null
    /\ education' = "" /\ skills' = "" /\ interests' = ""
    /\ uploadedFile' = Null
    /\ history' = <<>>
    /\ UNCHANGED <<mounted, loading, isScanning, error, localStorage, nextId,
                   modalVars, submitReq, scanReq>>
    /\ UNCHANGED <<callVars, tabVars>>

\* the Start New Analysis button under a displayed recommendation
reset ==
    /\ mounted
    /\ recommendation # Null
    /\ recommendation' = Null
    /\ education' = "" /\ skills' = "" /\ interests' = ""
    /\ uploadedFile' = Null
    /\ UNCHANGED <<mounted, loading, isScanning, error, storeVars, modalVars,
                   submitReq, scanReq>>
    /\ UNCHANGED <<callVars, tabVars>>

\* the Dismiss button of the error card: setError(null)
dismissError ==
    /\ mounted
    /\ error # NULL
    /\ error' = NULL
    /\ UNCHANGED <<mounted, formVars, loading, isScanning, recommendation,
                   uploadedFile, storeVars, modalVars, submitReq, scanReq>>
    /\ UNCHANGED <<callVars, tabVars>>

\* the submit button takes a click
CanInvokeSubmit == mounted /\ ~loading

\* !education || !skills || !interests: handleSubmit returns at once
MissingProfile == Falsy(education) \/ Falsy(skills) \/ Falsy(interests)

\* the error state once a call of handleSubmit has reached its await or returned
errorAfterHandleSubmit == IF MissingProfile THEN error ELSE NULL

\* the requests sent once a call of handleSubmit has reached its await or returned
submitCallsAfterHandleSubmit == IF MissingProfile THEN submitCalls ELSE submitCalls + 1

(***************************************************************************)
(* The save modal.                                                         *)
(***************************************************************************)
openSaveModal ==
    /\ mounted
    /\ recommendation # Null
    /\ isSaveModalOpen' = TRUE
    /\ UNCHANGED <<mounted, formVars, loading, isScanning, recommendation,
                   error, uploadedFile, storeVars, saveTitle, submitReq, scanReq>>
    /\ UNCHANGED <<callVars, tabVars>>

closeSaveModal ==
    /\ mounted /\ isSaveModalOpen
    /\ isSaveModalOpen' = FALSE
    /\ UNCHANGED <<mounted, formVars, loading, isScanning, recommendation,
                   error, uploadedFile, storeVars, saveTitle, submitReq, scanReq>>
    /\ UNCHANGED <<callVars, tabVars>>

setSaveTitle ==
    /\ mounted /\ isSaveModalOpen
    /\ \E title \in Titles : saveTitle' = title
    /\ UNCHANGED <<mounted, formVars, loading, isScanning, recommendation,
                   error, uploadedFile, storeVars, isSaveModalOpen, submitReq, scanReq>>
    /\ UNCHANGED <<callVars, tabVars>>

(***************************************************************************)
(* The resume upload and scan.                                             *)
(***************************************************************************)
\* the body handleFileChange and handleDrop share
TakeFile(file) ==
    IF AcceptsFile(file)
    THEN uploadedFile' = file /\ error' = NULL
    ELSE uploadedFile' = Null /\ error' = UploadRejectedMessage

handleFileChange ==
    /\ mounted
    /\ \E file \in Files : TakeFile(file)
    /\ UNCHANGED <<mounted, formVars, loading, isScanning, recommendation,
                   storeVars, modalVars, submitReq, scanReq>>
    /\ UNCHANGED <<callVars, tabVars>>

handleDrop ==
    /\ mounted
    /\ \E file \in Files : TakeFile(file)
    /\ UNCHANGED <<mounted, formVars, loading, isScanning, recommendation,
                   storeVars, modalVars, submitReq, scanReq>>
    /\ UNCHANGED <<callVars, tabVars>>

\* the X on the uploaded file: setUploadedFile(null)
removeFile ==
    /\ mounted
    /\ uploadedFile # Null
    /\ uploadedFile' = Null
    /\ UNCHANGED <<mounted, formVars, loading, isScanning, recommendation,
                   error, storeVars, modalVars, submitReq, scanReq>>
    /\ UNCHANGED <<callVars, tabVars>>

\* uploadedFile.type || 'application/pdf'
MimeTypeOf(file) == IF file.type = "" THEN "application/pdf" ELSE file.type

\* a handleScan that leaves the displayed recommendation on the page
handleScanKeepsRecommendation ==
    /\ mounted
    /\ uploadedFile # Null
    /\ ~isScanning
    /\ isScanning' = TRUE
    /\ error' = NULL
    /\ scanReq' = [pc |-> "reading", file |-> uploadedFile]
    /\ UNCHANGED <<mounted, formVars, loading, recommendation, uploadedFile,
                   storeVars, modalVars, submitReq>>
    /\ UNCHANGED <<callVars, tabVars>>

\* handleScan up to its first await: fileToBase64 is reading the file
handleScan ==
    /\ mounted
    /\ uploadedFile # Null
    /\ ~isScanning
    /\ isScanning' = TRUE
    /\ error' = NULL
    /\ recommendation' = Null
    /\ scanReq' = [pc |-> "reading", file |-> uploadedFile]
    /\ UNCHANGED <<mounted, formVars, loading, uploadedFile, storeVars,
                   modalVars, submitReq>>
    /\ UNCHANGED <<callVars, tabVars>>

\* catch and finally of handleScan
ScanFails ==
    /\ error' = ScanFailedMessage
    /\ isScanning' = FALSE
    /\ scanReq' = Idle

\* fileToBase64 settles; on success scanResume sends its request
fileReadSettles ==
    /\ mounted
    /\ scanReq.pc = "reading"
    /\ \/ /\ scanReq' = [pc |-> "scanning", mimeType |-> MimeTypeOf(scanReq.file)]
          /\ UNCHANGED <<isScanning, error>>
       \/ ScanFails
    /\ UNCHANGED <<mounted, formVars, loading, recommendation, uploadedFile,
                   storeVars, modalVars, submitReq>>
    /\ UNCHANGED <<callVars, tabVars>>

\* a scanResumeSettles that asks for the recommendation of the fields the
\* form held when the handler was called
scanResumeSettlesFromForm ==
    /\ mounted
    /\ scanReq.pc = "scanning"
    /\ \E response \in ScanResponses :
          LET extractedData == scanResume(response)
          IN  IF extractedData.ok
              THEN /\ education' = GetEducation(extractedData.value)
                   /\ skills' = GetSkills(extractedData.value)
                   /\ interests' = GetInterests(extractedData.value)
                   /\ scanReq' = [pc |-> "recommending", education |-> education,
                                  skills |-> skills, interests |-> interests]
                   /\ UNCHANGED <<isScanning, error>>
              ELSE /\ ScanFails
                   /\ UNCHANGED formVars
    /\ UNCHANGED <<mounted, loading, recommendation, uploadedFile, storeVars,
                   modalVars, submitReq>>
    /\ UNCHANGED <<callVars, tabVars>>

\* scanResume settles; on success the fields are set and
\* getCareerRecommendations sends its request
scanResumeSettles ==
    /\ mounted
    /\ scanReq.pc = "scanning"
    /\ \E response \in ScanResponses :
          LET extractedData == scanResume(response)
          IN  IF extractedData.ok
              THEN /\ education' = GetEducation(extractedData.value)
                   /\ skills' = GetSkills(extractedData.value)
                   /\ interests' = GetInterests(extractedData.value)
                   /\ scanReq' = [pc |-> "recommending",
                                  education |-> GetEducation(extractedData.value),
                                  skills |-> GetSkills(extractedData.value),
                                  interests |-> GetInterests(extractedData.value)]
                   /\ UNCHANGED <<isScanning, error>>
              ELSE /\ ScanFails
                   /\ UNCHANGED formVars
    /\ UNCHANGED <<mounted, loading, recommendation, uploadedFile, storeVars,
                   modalVars, submitReq>>
    /\ UNCHANGED <<callVars, tabVars>>

\* the last step of handleScan without its finally block
scanRecommendationSettlesWithoutFinally ==
    /\ scanReq.pc = "recommending"
    /\ mounted
    /\ \E response \in RecommendationResponses(scanReq.education, scanReq.skills,
                                               scanReq.interests) :
          LET result == getCareerRecommendations(response)
          IN  IF result.ok
              THEN /\ recommendation' = result.value
                   /\ mounted' = ~RenderThrows(result.value)
                   /\ error' = error
              ELSE /\ error' = ScanFailedMessage
                   /\ UNCHANGED <<recommendation, mounted>>
    /\ scanReq' = Idle
    /\ UNCHANGED <<formVars, loading, isScanning, uploadedFile, storeVars, modalVars,
                   submitReq>>
    /\ UNCHANGED <<callVars, tabVars>>

\* the getCareerRecommendations call of handleScan settles
scanRecommendationSettles ==
    /\ scanReq.pc = "recommending"
    /\ mounted
    /\ \E response \in RecommendationResponses(scanReq.education, scanReq.skills,
                                               scanReq.interests) :
          LET result == getCareerRecommendations(response)
          IN  IF result.ok
              THEN /\ recommendation' = result.value
                   /\ mounted' = ~RenderThrows(result.value)
                   /\ error' = error
              ELSE /\ error' = ScanFailedMessage
                   /\ UNCHANGED <<recommendation, mounted>>
    /\ isScanning' = FALSE
    /\ scanReq' = Idle
    /\ UNCHANGED <<formVars, loading, uploadedFile, storeVars, modalVars,
                   submitReq>>
    /\ UNCHANGED <<callVars, tabVars>>

\* the error state once a call of handleScan has reached its first await or
\* returned: without a file it returns at once
errorAfterHandleScan == IF uploadedFile = Null THEN error ELSE NULL

\* the scan flow once a call of handleScan has reached its first await or returned
scanReqAfterHandleScan ==
    IF uploadedFile = Null THEN scanReq ELSE [pc |-> "reading", file |-> uploadedFile]

(***************************************************************************)
(* The specification.                                                      *)
(***************************************************************************)
Next ==
    \/ setEducation \/ setSkills \/ setInterests \/ applyTemplate
    \/ handleSubmit \/ submitResolves \/ reset \/ dismissError
    \/ openSaveModal \/ closeSaveModal \/ setSaveTitle \/ handleSave
    \/ deleteHistoryItem \/ clearAll \/ viewHistoryItem
    \/ handleFileChange \/ handleDrop \/ removeFile
    \/ handleScan \/ fileReadSettles \/ scanResumeSettles \/ scanRecommendationSettles
    \/ Reload

Spec == Init /\ [][Next]_vars

(***************************************************************************)
(* The history store on its own: the page was opened on a store of up to   *)
(* three entries, and a recommendation request or a history card left the  *)
(* form and the displayed recommendation in one of the states below; then  *)
(* the save modal and the store's handlers run.                            *)
(***************************************************************************)
StoresOpenedOn ==
    { NoItem, InvalidJson } \cup { Stringify(LastStored(n)) : n \in 1..Len(StoredBefore) }

RecommendationsDisplayed ==
    { Null,
      FullRecommendation("ECE", QuickStartTemplates[1].skills,
                         QuickStartTemplates[1].interests),
      FullRecommendation(Undefined, QuickStartTemplates[1].skills,
                         QuickStartTemplates[1].interests) }

InitStore ==
    /\ localStorage \in StoresOpenedOn
    /\ nextId = Len(StoredBefore) + 1
    /\ mounted = TRUE
    /\ education \in {"", "ECE", Undefined}
    /\ skills \in {"", QuickStartTemplates[1].skills}
    /\ interests \in {"", QuickStartTemplates[1].interests}
    /\ loading = FALSE /\ isScanning = FALSE
    /\ recommendation \in RecommendationsDisplayed
    /\ error = NULL /\ uploadedFile = Null
    /\ history = LoadHistory(localStorage)
    /\ isSaveModalOpen = FALSE /\ saveTitle = <<>>
    /\ submitReq = Idle /\ scanReq = Idle
    /\ acceptedSubmits = 0 /\ submitCalls = 0
    /\ otherHistory = LoadHistory(localStorage)
    /\ lastWriter = NoWriter

NextStore ==
    \/ openSaveModal \/ closeSaveModal \/ setSaveTitle \/ handleSave
    \/ deleteHistoryItem \/ clearAll \/ viewHistoryItem
    \/ Reload

SpecStore == InitStore /\ [][NextStore]_vars

(***************************************************************************)
(* The page without the resume upload: the form, the submit, the save      *)
(* modal and the history handlers.                                         *)
(***************************************************************************)
NextSave ==
    \/ setEducation \/ setSkills \/ setInterests \/ applyTemplate
    \/ handleSubmit \/ submitResolves \/ reset \/ dismissError
    \/ openSaveModal \/ closeSaveModal \/ setSaveTitle \/ handleSave
    \/ deleteHistoryItem \/ clearAll \/ viewHistoryItem
    \/ Reload

SpecSave == Init /\ [][NextSave]_vars

(***************************************************************************)
(* Two tabs on one storage key.  The second tab runs the same component;   *)
(* of its state only the history list is kept, and what it saves is the    *)
(* entry below.                                                            *)
(***************************************************************************)
\* a saveToLocalStorage that keeps the stored entries this tab never loaded
saveToLocalStorageMerging(tabHistory, newHistory) ==
    LET stored == LoadHistory(localStorage)
        unseen == SelectSeq(stored, LAMBDA item :
                      \A k \in 1..Len(tabHistory) : tabHistory[k].id # item.id)
    IN  IF QuotaExceeded(Stringify(newHistory \o unseen))
        THEN [threw |-> TRUE, localStorage |-> localStorage, history |-> tabHistory]
        ELSE [threw |-> FALSE, localStorage |-> Stringify(newHistory \o unseen),
              history |-> newHistory]

\* saveToLocalStorage(newHistory) in the tab whose list is tabHistory
saveToLocalStorageIn(tabHistory, newHistory) ==
    IF QuotaExceeded(Stringify(newHistory))
    THEN [threw |-> TRUE, localStorage |-> localStorage, history |-> tabHistory]
    ELSE [threw |-> FALSE, localStorage |-> Stringify(newHistory), history |-> newHistory]

\* the entry handleSave builds in the second tab
OtherTabItem(id, date) ==
    HistoryItem(id, <<"P">>, date,
                FullRecommendation("ECE", QuickStartTemplates[1].skills,
                                   QuickStartTemplates[1].interests),
                "ECE", QuickStartTemplates[1].skills, QuickStartTemplates[1].interests)

\* what the handlers of the second tab leave alone
otherTabFrame ==
    UNCHANGED <<mounted, formVars, loading, isScanning, recommendation, error,
                uploadedFile, history, modalVars, submitReq, scanReq, callVars>>

\* handleSave in the second tab
otherTabSave ==
    /\ nextId \in FreshIds
    /\ \E date \in Dates :
          LET written == saveToLocalStorageIn(otherHistory,
                             Prepend(OtherTabItem(nextId, date), otherHistory))
          IN  /\ ~written.threw
              /\ localStorage' = written.localStorage
              /\ otherHistory' = written.history
    /\ nextId' = nextId + 1
    /\ lastWriter' = OtherTab
    /\ otherTabFrame

\* deleteHistoryItem in the second tab
otherTabDelete ==
    /\ \E i \in 1..Len(otherHistory) :
          LET written == saveToLocalStorageIn(otherHistory,
                             FilterOutId(otherHistory, otherHistory[i].id))
          IN  /\ ~written.threw
              /\ localStorage' = written.localStorage
              /\ otherHistory' = written.history
    /\ lastWriter' = OtherTab
    /\ UNCHANGED nextId
    /\ otherTabFrame

\* Clear All in the second tab
otherTabClear ==
    /\ Len(otherHistory) > 0
    /\ LET written == saveToLocalStorageIn(otherHistory, <<>>)
       IN  /\ ~written.threw
           /\ localStorage' = written.localStorage
           /\ otherHistory' = written.history
    /\ lastWriter' = OtherTab
    /\ UNCHANGED nextId
    /\ otherTabFrame

\* a reload of the second tab
otherTabReload ==
    /\ otherHistory' = LoadHistory(localStorage)
    /\ UNCHANGED <<localStorage, nextId, lastWriter>>
    /\ otherTabFrame

NextTabs ==
    \/ openSaveModal \/ closeSaveModal \/ setSaveTitle \/ handleSave
    \/ deleteHistoryItem \/ clearAll \/ viewHistoryItem \/ Reload
    \/ otherTabSave \/ otherTabDelete \/ otherTabClear \/ otherTabReload

\* both tabs were opened on the same store, empty or holding two entries;
\* this tab has a half-filled form and a recommendation displayed
InitTabs ==
    /\ localStorage \in { NoItem, Stringify(LastStored(2)) }
    /\ nextId = Len(StoredBefore) + 1
    /\ mounted = TRUE
    /\ education = "ECE"
    /\ skills = QuickStartTemplates[1].skills
    /\ interests = ""
    /\ loading = FALSE /\ isScanning = FALSE
    /\ recommendation = FullRecommendation("ECE", QuickStartTemplates[1].skills,
                                         QuickStartTemplates[1].interests)
    /\ error = NULL /\ uploadedFile = Null
    /\ history = LoadHistory(localStorage)
    /\ isSaveModalOpen = FALSE /\ saveTitle = <<>>
    /\ submitReq = Idle /\ scanReq = Idle
    /\ acceptedSubmits = 0 /\ submitCalls = 0
    /\ otherHistory = LoadHistory(localStorage)
    /\ lastWriter = NoWriter

SpecTabs == InitTabs /\ [][NextTabs]_vars

(***************************************************************************)
(* The requests on their own: the form, the upload area, the submit and    *)
(* the scan flow, a history card loaded into the page, and a reload.  The  *)
(* handlers left out (the save modal, handleSave, delete, Clear All) write *)
(* none of loading, isScanning, error, recommendation or a request.        *)
(***************************************************************************)
NextRequests ==
    \/ setEducation \/ setSkills \/ setInterests \/ applyTemplate
    \/ handleSubmit \/ submitResolves \/ reset \/ dismissError
    \/ viewHistoryItem
    \/ handleFileChange \/ handleDrop \/ removeFile
    \/ handleScan \/ fileReadSettles \/ scanResumeSettles \/ scanRecommendationSettles
    \/ Reload

SpecRequests == Init /\ [][NextRequests]_vars

\* every provider request and every file read settles in the end, for as
\* long as the component is there to take the result
SpecRequestsFair ==
    /\ SpecRequests
    /\ WF_vars(submitResolves)
    /\ WF_vars(fileReadSettles)
    /\ WF_vars(scanResumeSettles)
    /\ WF_vars(scanRecommendationSettles)

(***************************************************************************)
(* Claims about the history store.                                         *)
(***************************************************************************)
\* ids an entry can have: those stored before and those handed out later
Ids == 1..(Len(StoredBefore) + MaxSaves + 1)

\* two entries with the same id, title, date, recommendation and profile values
SameEntry(a, b) ==
    /\ a.id = b.id /\ a.title = b.title /\ a.date = b.date
    /\ a.recommendation = b.recommendation
    /\ \A k \in {"education", "skills", "interests"} :
          ReadField(a.inputs[k]) = ReadField(b.inputs[k])

\* two lists with the same entries in the same order
SameList(a, b) == Len(a) = Len(b) /\ \A k \in 1..Len(a) : SameEntry(a[k], b[k])

\* after holds exactly the entries of before whose id is not id, in their order
KeepsTheOthers(before, after, id) ==
    /\ \A k \in 1..Len(after) : after[k].id # id
    /\ Len(after) = Cardinality({ k \in 1..Len(before) : before[k].id # id })
    /\ \E f \in [1..Len(after) -> 1..Len(before)] :
          /\ \A k \in 1..Len(after) : after[k] = before[f[k]]
          /\ \A j, k \in 1..Len(after) : j < k => f[j] < f[k]

\* C1 as stated: every invocation of handleSave, from any state where it can
\* be invoked, makes the history list one longer, with the new entry first
\* and the previous entries after it in their order.
C1_EveryInvocationAddsOne ==
    CanInvokeSave =>
        \A date \in Dates :
            LET after == historyAfterHandleSave(date)
            IN  /\ Len(after) = Len(history) + 1
                /\ after[1].id = nextId
                /\ \A k \in 1..Len(history) : after[k + 1] = history[k]

\* C1 as amended: a handleSave that gets past its early return and whose
\* storage write does not throw makes the history list one longer, the new
\* entry (fresh id, the typed title, the displayed recommendation, the form
\* fields) first and the previous entries after it in their order; and the
\* list grows in no other step: not when no recommendation is displayed, not
\* when the title is blank, not when the write throws.
C1_SavePrependsOneEntry ==
    [][ /\ handleSave =>
              /\ Len(history') = Len(history) + 1
              /\ history'[1].id = nextId
              /\ \A k \in 1..Len(history) : history[k].id # nextId
              /\ history'[1].title = saveTitle
              /\ history'[1].recommendation = recommendation
              /\ history'[1].inputs = [education |-> education, skills |-> skills,
                                       interests |-> interests]
              /\ \A k \in 1..Len(history) : history'[k + 1] = history[k]
        /\ Len(history') > Len(history) =>
              /\ isSaveModalOpen
              /\ recommendation # Null
              /\ \E k \in 1..Len(saveTitle) : saveTitle[k] # " "
              /\ Len(history) < StorageQuota
      ]_vars

\* a save onto two earlier entries
C1_Witness ==
    /\ Len(history) = 3
    /\ history[1].id = Len(StoredBefore) + 1
    /\ history[2].id = 2 /\ history[3].id = 1

\* C2: deleteHistoryItem leaves exactly the entries whose id differs from the
\* given one, in their order; the entries all have different ids, so it takes
\* one entry out; and for an id no entry has, the filter gives the list back.
C2_DeleteKeepsTheOthers ==
    [][ /\ deleteHistoryItem =>
              \E i \in 1..Len(history) :
                  /\ KeepsTheOthers(history, history', history[i].id)
                  /\ Len(history') = Len(history) - 1
        /\ \A id \in Ids :
              LET kept == FilterOutId(history, id)
              IN  /\ KeepsTheOthers(history, kept, id)
                  /\ Len(kept) >= Len(history) - 1
                  /\ (\A k \in 1..Len(history) : history[k].id # id) => kept = history
      ]_vars

\* the middle one of three entries was deleted
C2_Witness ==
    /\ Len(history) = 2
    /\ history[1].id = 3 /\ history[2].id = 1

\* C3: Clear All leaves the history list and the stored collection empty,
\* and saveToLocalStorage([]) on the empty list leaves both empty again
\* without throwing.
C3_ClearEmptiesAndIsIdempotent ==
    [][ /\ clearAll =>
              /\ history' = <<>>
              /\ localStorage' = JsonText(<<>>)
              /\ LoadHistory(localStorage') = <<>>
        /\ (history = <<>> /\ localStorage = JsonText(<<>>)) =>
              LET again == saveToLocalStorage(<<>>)
              IN  /\ ~again.threw
                  /\ again.history = <<>>
                  /\ again.localStorage = JsonText(<<>>)
      ]_vars

\* the list of three was cleared
C3_Witness ==
    /\ history = <<>>
    /\ localStorage = JsonText(<<>>)
    /\ nextId = Len(StoredBefore) + 1

\* C4: the collection under the storage key is the history list, entry for
\* entry; while the key is not set or does not parse, the list is empty.
C4_StoreMirrorsHistory ==
    IF localStorage.kind = "json"
    THEN SameList(localStorage.value, history)
    ELSE history = <<>>

\* a save, then a delete of an older entry
C4_Witness ==
    /\ Len(history) = 1
    /\ history[1].id = Len(StoredBefore) + 1
    /\ localStorage.kind = "json"

\* C5: after handleSave, what the mount effect reads back from the storage
\* key is the saved entry (same id, title, date, recommendation and profile
\* values) followed by the entries of the list before the save; and a reload
\* gives the list the page had.
C5_SaveThenReloadRoundTrips ==
    [][ /\ handleSave =>
              LET reread == LoadHistory(localStorage')
              IN  /\ Len(reread) = Len(history) + 1
                  /\ reread[1].id = nextId
                  /\ reread[1].title = saveTitle
                  /\ reread[1].recommendation = recommendation
                  /\ ReadField(reread[1].inputs.education) = education
                  /\ ReadField(reread[1].inputs.skills) = skills
                  /\ ReadField(reread[1].inputs.interests) = interests
                  /\ \A k \in 1..Len(history) : SameEntry(reread[k + 1], history[k])
        /\ (Reload /\ localStorage.kind = "json") => SameList(history', history)
      ]_vars

\* an entry saved with an undefined education and an empty skills field, read
\* back by a reload
C5_Witness ==
    /\ Len(history) >= 1
    /\ history[1].id = Len(StoredBefore) + 1
    /\ history[1].inputs.education = Absent
    /\ history[1].inputs.skills = ""

(***************************************************************************)
(* Claims about the recommendation and scan requests.                      *)
(***************************************************************************)
\* the profile an entry holds, as its fields read
ProfileOf(item) ==
    << ReadField(item.inputs.education), ReadField(item.inputs.skills),
       ReadField(item.inputs.interests) >>

\* C6: every entry of the history list pairs a recommendation with the
\* profile that was the input of the provider call that produced it (the
\* provider's summary is about the profile it was asked about).
C6_EntriesPairRecommendationWithItsProfile ==
    \A k \in 1..Len(history) :
        /\ IsCareerRecommendation(history[k].recommendation)
        /\ history[k].recommendation.summary = ProfileOf(history[k])

\* C7: the recommendation request of a submit is all or nothing: when it
\* settles, either a value of the Recommendation shape is displayed, or the
\* generation-failed message is set and the displayed recommendation is the
\* one from before.
C7_RecommendationIsAllOrNothing ==
    [][ submitResolves =>
            \/ IsCareerRecommendation(recommendation')
            \/ /\ error' = GenerationFailedMessage
               /\ recommendation' = recommendation
      ]_vars

\* C8: the displayed recommendation, when there is one, has careerPaths,
\* internshipRoles, skillsToLearn and summary, the three lists being lists.
C8_RecommendationHasItsFourFields ==
    recommendation # Null => IsCareerRecommendation(recommendation)

\* the steps of handleScan after its awaits
ScanStep == fileReadSettles \/ scanResumeSettles \/ scanRecommendationSettles

\* C9: scanResume succeeds with a Profile (three strings) or the scan flow
\* ends with the scan-failed message and isScanning false; no step of the
\* scan flow takes the page down.
C9_ScanGivesProfileOrScanFailed ==
    [][ /\ scanResumeSettles =>
              \/ /\ scanReq'.pc = "recommending"
                 /\ Undefined \notin {scanReq'.education, scanReq'.skills,
                                      scanReq'.interests}
              \/ /\ scanReq'.pc = "idle"
                 /\ error' = ScanFailedMessage
                 /\ ~isScanning'
        /\ ScanStep => mounted'
        /\ (ScanStep /\ scanReq'.pc = "idle" /\ recommendation' = Null) =>
              (error' = ScanFailedMessage /\ ~isScanning')
      ]_vars

\* C10: a submit is idle, then in flight, then settled.  An accepted submit
\* sets loading and clears the error; when its call settles either the
\* recommendation is set and the error left alone, or the generation-failed
\* message is set and the recommendation left alone, never both, and loading
\* is false; only handleSubmit puts a request in flight.  The scan flow goes
\* reading, scanning, recommending in this order, back to idle from any of
\* them, and only handleScan starts it.
C10_RequestStateMachine ==
    [][ /\ handleSubmit =>
              (submitReq.pc = "idle" /\ submitReq'.pc = "awaiting" /\ loading'
               /\ error' = NULL)
        /\ (submitReq.pc = "idle" /\ submitReq'.pc = "awaiting") => handleSubmit
        /\ submitReq.pc = "awaiting" => (loading /\ error # GenerationFailedMessage)
        /\ submitResolves =>
              /\ submitReq'.pc = "idle" /\ ~loading'
              /\ \/ /\ recommendation' # Null /\ error' = error
                    /\ recommendation'
                         \in { EmptyObject,
                               FullRecommendation(submitReq.education, submitReq.skills,
                                                  submitReq.interests) }
                 \/ /\ error' = GenerationFailedMessage
                    /\ recommendation' = recommendation
        /\ (submitReq.pc = "idle" /\ mounted) => ~loading
        /\ handleScan =>
              (scanReq.pc = "idle" /\ scanReq'.pc = "reading" /\ isScanning'
               /\ error' = NULL)
        /\ (scanReq.pc = "idle" /\ scanReq'.pc # "idle") => handleScan
        /\ scanReq'.pc # scanReq.pc =>
              <<scanReq.pc, scanReq'.pc>>
                 \in { <<"idle", "reading">>, <<"reading", "scanning">>,
                       <<"scanning", "recommending">>, <<"reading", "idle">>,
                       <<"scanning", "idle">>, <<"recommending", "idle">> }
        /\ scanReq'.pc = "idle" => ~isScanning'
      ]_vars

\* a request that succeeded, then one that failed
C10_Witness ==
    /\ submitReq.pc = "idle" /\ ~loading
    /\ error = GenerationFailedMessage
    /\ IsCareerRecommendation(recommendation)

(***************************************************************************)
(* Claims about the tasks in flight.                                       *)
(***************************************************************************)
\* C11: a submit's request (loading) and a scan flow (isScanning) are never
\* in flight together, and no submit starts while a submit is in flight, no
\* scan while a scan is in flight.
C11_OneTaskAtATime ==
    [][ /\ ~(loading' /\ isScanning')
        /\ handleSubmit => (~loading /\ submitReq.pc = "idle")
        /\ handleScan => (~isScanning /\ scanReq.pc = "idle")
      ]_vars

\* C12: a submit attempted with an empty education, skills or interests, or
\* a scan attempted with no uploaded file, ends with the error state set and
\* without a provider request.
C12_MissingDataSetsError ==
    /\ (CanInvokeSubmit /\ MissingProfile) =>
          (errorAfterHandleSubmit # NULL /\ submitCallsAfterHandleSubmit = submitCalls)
    /\ (mounted /\ ~isScanning /\ uploadedFile = Null) =>
          (errorAfterHandleScan # NULL /\ scanReqAfterHandleScan = scanReq)

(***************************************************************************)
(* Claims about storage failures, calls and tabs.                          *)
(***************************************************************************)
\* C13: a stored value that is missing or does not parse gives an empty
\* history list and no error state when the page loads; a storage write that
\* fails in save, delete or Clear All does not leave the handler as an
\* exception, and the handler still has its in-memory effect (the save adds
\* its entry to the list, closes the modal and empties the title).
C13_StorageFailuresStayInside ==
    [][ /\ (Reload /\ localStorage.kind # "json") =>
              (history' = <<>> /\ error' = NULL /\ mounted')
        /\ (CanInvokeSave /\ SaveGuard) =>
              \A date \in Dates :
                  /\ ~handleSaveThrows(date)
                  /\ Len(historyAfterHandleSave(date)) = Len(history) + 1
                  /\ ~isSaveModalOpenAfterHandleSave(date)
                  /\ saveTitleAfterHandleSave(date) = <<>>
        /\ mounted =>
              /\ \A i \in 1..Len(history) :
                    ~saveToLocalStorage(FilterOutId(history, history[i].id)).threw
              /\ ~saveToLocalStorage(<<>>).threw
      ]_vars

\* C17: the mimeType handleScan passes to scanResume is one of
\* application/pdf, application/msword, the .docx type and text/plain, for
\* every file handleFileChange or handleDrop accepted.
C17_ScanMimeTypeIsAccepted ==
    scanReq.pc = "scanning" => scanReq.mimeType \in validTypes

\* C14: every accepted submit sends exactly one recommendation request, so
\* the requests sent by submits are as many as the accepted submits; a
\* request that failed is not sent again when it settles; a submit of the
\* profile whose recommendation is displayed sends a request like any other.
C14_OneCallPerAcceptedSubmit ==
    [][ /\ acceptedSubmits' = submitCalls'
        /\ handleSubmit =>
              /\ submitCalls' = submitCalls + 1
              /\ submitReq' = [pc |-> "awaiting", education |-> education,
                               skills |-> skills, interests |-> interests]
        /\ submitResolves => (submitCalls' = submitCalls /\ submitReq' = Idle)
        /\ submitCalls' > submitCalls => (submitReq.pc = "idle" /\ ~loading)
      ]_vars

\* a second submit of the profile whose recommendation is displayed has its
\* request in flight
C14_Witness ==
    /\ acceptedSubmits = 2 /\ submitCalls = 2
    /\ submitReq.pc = "awaiting"
    /\ recommendation = FullRecommendation(submitReq.education, submitReq.skills,
                                           submitReq.interests)

\* the ids of the entries of a list
IdsOf(list) == { list[k].id : k \in 1..Len(list) }

\* a write of the tab whose list is tabHistory stores that list, and with it
\* drops every stored entry the tab does not hold
RewritesFrom(tabHistory, tabHistoryAfter) ==
    /\ localStorage' = Stringify(tabHistoryAfter)
    /\ \A id \in IdsOf(LoadHistory(localStorage)) \ IdsOf(tabHistory) :
          id \notin IdsOf(LoadHistory(localStorage'))

\* C15: with two tabs on the storage key, a save, delete or Clear All in a
\* tab stores that tab's own list: a stored entry the tab has not loaded is
\* gone afterwards, and the stored collection is the list of the tab that
\* wrote last.
C15_LastWriterWins ==
    [][ /\ (handleSave \/ deleteHistoryItem \/ clearAll) =>
              (RewritesFrom(history, history') /\ lastWriter' = ThisTab)
        /\ (otherTabSave \/ otherTabDelete \/ otherTabClear) =>
              (RewritesFrom(otherHistory, otherHistory') /\ lastWriter' = OtherTab)
        /\ lastWriter' = ThisTab => SameList(LoadHistory(localStorage'), history')
        /\ lastWriter' = OtherTab => SameList(LoadHistory(localStorage'), otherHistory')
      ]_vars

\* a lost update: the second tab holds an entry it saved, this tab wrote last
\* and the entry is not stored; this tab's form is still half filled, as it
\* was when the tab was opened (a reload empties it, a history card fills
\* it), so this tab never loaded that entry
C15_Witness ==
    /\ lastWriter = ThisTab
    /\ skills # "" /\ interests = ""
    /\ \E k \in 1..Len(otherHistory) :
          /\ otherHistory[k].id \in FreshIds
          /\ otherHistory[k].id \notin IdsOf(LoadHistory(localStorage))

\* the handlers that are not the save, the delete, Clear All or a reload
OtherHandler ==
    \/ setEducation \/ setSkills \/ setInterests \/ applyTemplate
    \/ handleSubmit \/ submitResolves \/ reset \/ dismissError
    \/ openSaveModal \/ closeSaveModal \/ setSaveTitle \/ viewHistoryItem
    \/ handleFileChange \/ handleDrop \/ removeFile
    \/ handleScan \/ fileReadSettles \/ scanResumeSettles \/ scanRecommendationSettles

ScannedProfiles ==
    { << GetEducation(scanResume(response).value), GetSkills(scanResume(response).value),
         GetInterests(scanResume(response).value) >> :
        response \in { r \in ScanResponses : scanResume(r).ok } }

\* the inputs of the recommendation request of a scan flow
InputsOf(req) == << req.education, req.skills, req.interests >>

\* C18: in the scan flow the scan request is sent once the file is read, and
\* the recommendation request only in the step in which the scan request
\* settles with success; its inputs are the education, skills and interests
\* the scan returned, whatever the form held, and they stay those while the
\* form is edited; when the scan request fails, no recommendation request is
\* sent and the flow ends.
C18_ScanThenRecommend ==
    [][ /\ (scanReq'.pc = "scanning" /\ scanReq.pc # "scanning") =>
              (fileReadSettles /\ scanReq.pc = "reading")
        /\ (scanReq'.pc = "recommending" /\ scanReq.pc # "recommending") =>
              /\ scanResumeSettles /\ scanReq.pc = "scanning"
              /\ InputsOf(scanReq') \in ScannedProfiles
              /\ InputsOf(scanReq') = <<education', skills', interests'>>
        /\ (scanReq'.pc = "recommending" /\ scanReq.pc = "recommending") =>
              scanReq' = scanReq
        /\ (scanResumeSettles /\ scanReq'.pc # "recommending") =>
              (scanReq' = Idle /\ error' = ScanFailedMessage /\ ~isScanning'
               /\ recommendation' = recommendation)
        /\ scanRecommendationSettles =>
              \/ recommendation' = recommendation
              \/ recommendation'
                    \in { EmptyObject,
                          FullRecommendation(scanReq.education, scanReq.skills,
                                             scanReq.interests) }
      ]_vars

\* the recommendation request of a scan flow is in flight for the scanned
\* profile while the form, edited since, holds another education
C18_Witness ==
    /\ scanReq.pc = "recommending"
    /\ scanReq.education = "ECE"
    /\ education = ""

(***************************************************************************)
(* Claims about the save guard and the release of the flags.               *)
(***************************************************************************)
\* a title with nothing but spaces in it
Blank(title) == \A k \in 1..Len(title) : title[k] = " "

\* C19: handleSave called with no displayed recommendation, or with an empty
\* or all-spaces title, changes nothing: the history list, the stored value,
\* the modal flag and the title are as before; a handleSave step is taken
\* only with a recommendation and a title that is not blank; so every entry
\* this run created has a recommendation and a title that is not blank.
C19_SaveWithoutRecommendationOrTitleIsNoOp ==
    [][ /\ (CanInvokeSave /\ (recommendation = Null \/ Blank(saveTitle))) =>
              \A date \in Dates :
                  /\ historyAfterHandleSave(date) = history
                  /\ localStorageAfterHandleSave(date) = localStorage
                  /\ isSaveModalOpenAfterHandleSave(date) = isSaveModalOpen
                  /\ saveTitleAfterHandleSave(date) = saveTitle
        /\ handleSave => (recommendation # Null /\ ~Blank(saveTitle))
        /\ \A k \in 1..Len(history') :
              history'[k].id \in FreshIds =>
                  (history'[k].recommendation # Null /\ ~Blank(history'[k].title))
      ]_vars

\* an entry was saved, and the modal is open again with a title of one
\* space: Enter in the title input calls handleSave
C19_Witness ==
    /\ CanInvokeSave
    /\ saveTitle = <<" ">>
    /\ Len(history) >= 1 /\ history[1].id \in FreshIds

\* C20: the step in which a submit's request settles, with a result or with
\* an error, leaves loading false, and the step in which a scan flow ends,
\* at whichever of its three awaits, leaves isScanning false; when every
\* request and file read settles, a component that shows loading, or
\* isScanning, comes to a state where it no longer does (the flag is false,
\* or a render threw and there is no component any more).
C20_FlagsAreReleased ==
    /\ [][ /\ submitResolves => ~loading'
           /\ (ScanStep /\ scanReq'.pc = "idle") => ~isScanning'
           /\ (loading /\ loading' /\ mounted') => submitReq'.pc = "awaiting"
           /\ (isScanning /\ isScanning' /\ mounted') => scanReq'.pc # "idle"
         ]_vars
    /\ (mounted /\ loading) ~> (~loading \/ ~mounted)
    /\ (mounted /\ isScanning) ~> (~isScanning \/ ~mounted)

\* a submit's request has settled and a scan flow has failed since: both
\* flags are false again
C20_Witness ==
    /\ acceptedSubmits >= 1
    /\ submitReq.pc = "idle" /\ scanReq.pc = "idle"
    /\ ~loading /\ ~isScanning
    /\ error = ScanFailedMessage

(***************************************************************************)
(* What a failed request leaves behind.                                    *)
(***************************************************************************)
\* the handlers that write a field of the form on a click or a key
FormHandler ==
    \/ setEducation \/ setSkills \/ setInterests \/ applyTemplate
    \/ viewHistoryItem \/ reset

\* C21: a submit whose call throws (the provider rejects, or the text does
\* not parse) sets the generation-failed message and leaves the displayed
\* recommendation and the form as they were; every other submit takes the
\* value the call resolved with and leaves the error alone.  handleScan
\* clears the displayed recommendation and the error.  When the scan request
\* succeeds the form holds the scanned profile; when the recommendation
\* request that follows throws, that step sets the scan-failed message, not
\* the generation-failed one, and leaves the form and the recommendation as
\* they were.  While a scan flow is in flight its own steps leave the
\* recommendation null, and after the scan request has settled they leave
\* the form alone: a recommendation comes to the page only from a submit
\* that resolves or a history card, another form only from the form's own
\* handlers or a reload of the page.
C21_FailedRequestResidue ==
    [][ /\ submitReq.pc = "awaiting" => error # GenerationFailedMessage
        /\ submitResolves =>
              /\ <<education', skills', interests'>> = <<education, skills, interests>>
              /\ \/ /\ error' = GenerationFailedMessage
                    /\ recommendation' = recommendation
                    /\ mounted'
                 \/ /\ error' = error
                    /\ recommendation'
                          \in { EmptyObject,
                                FullRecommendation(submitReq.education, submitReq.skills,
                                                   submitReq.interests) }
        /\ handleScan =>
              /\ recommendation' = Null /\ error' = NULL
              /\ <<education', skills', interests'>> = <<education, skills, interests>>
        /\ scanReq.pc # "idle" => error # ScanFailedMessage
        /\ (scanResumeSettles /\ scanReq'.pc = "recommending") =>
              /\ <<education', skills', interests'>> \in ScannedProfiles
              /\ recommendation' = recommendation
              /\ error' = error
        /\ scanRecommendationSettles =>
              /\ <<education', skills', interests'>> = <<education, skills, interests>>
              /\ \/ /\ error' = ScanFailedMessage
                    /\ error' # GenerationFailedMessage
                    /\ recommendation' = recommendation
                    /\ mounted' /\ ~isScanning'
                 \/ /\ error' = error
                    /\ recommendation'
                          \in { EmptyObject,
                                FullRecommendation(scanReq.education, scanReq.skills,
                                                   scanReq.interests) }
        /\ (scanReq.pc # "idle" /\ recommendation = Null /\ recommendation' # Null) =>
              (submitResolves \/ viewHistoryItem
               \/ (scanRecommendationSettles /\ error' = error))
        /\ (scanReq.pc = "recommending"
            /\ <<education', skills', interests'>> # <<education, skills, interests>>) =>
              (FormHandler \/ Reload)
      ]_vars

\* the recommendation request of a scan flow has failed on a page that never
\* sent a submit and has no history card: the form holds the scanned
\* profile, no recommendation is displayed and the message is the
\* scan-failed one
C21_Witness ==
    /\ scanReq.pc = "idle" /\ ~isScanning
    /\ error = ScanFailedMessage
    /\ recommendation = Null
    /\ <<education, skills, interests>> =
          << GetEducation(FullResumeData), GetSkills(FullResumeData),
             GetInterests(FullResumeData) >>
    /\ uploadedFile # Null
    /\ acceptedSubmits = 0 /\ history = <<>>
====
